---- MODULE Spec2Model ----
(***************************************************************************)
(* Volta's Unix layout (crates/volta-core/src/path/unix.rs): the compiled- *)
(* in OS/ARCH identifiers, the path constructors under the Volta home, the *)
(* shim executable lookup and the symlink helper, run against a small file *)
(* system that other processes change between the program's calls.         *)
(*                                                                         *)
(* A string (a &str, an OsString, a PathBuf) is a sequence of tokens; the  *)
(* separators "/" and "-" are always tokens of their own, so that the code *)
(* can look at a path's first and last character. Text(s) is the string    *)
(* itself, and every comparison of results is made on Text.                *)
(***************************************************************************)
EXTENDS Naturals, Sequences, FiniteSets, TLC

VARIABLES
    target,      \* the build target: [os, arch] (cfg target_os, target_arch)
    home,        \* what dirs::home_dir() answers: an Option of a path
    volta_shim,  \* env::var_os("VOLTA_SHIM"): an Option of a string
    fs,          \* the file system: path -> entry
    ret,         \* the last call of the program and what it returned
    stale        \* another process changed fs since the last call

vars == <<target, home, volta_shim, fs, ret, stale>>

(* Symbolic links followed by one path resolution before it gives up. *)
MaxHops == 3

RECURSIVE Text(_)
Text(s) == IF s = <<>> THEN "" ELSE Head(s) \o Text(Tail(s))

(***************************** Option, Fallible ****************************)
NoneV == [some |-> FALSE, val |-> <<>>]
Some(v) == [some |-> TRUE, val |-> v]

Ok(v) == [ok |-> TRUE, val |-> v, err |-> ""]
Err(e) == [ok |-> FALSE, val |-> <<>>, err |-> e]

(* What one call does: its result, the system calls it made, in order, and *)
(* the file system it leaves.                                              *)
Outcome(res, log, f) == [res |-> res, log |-> log, fs |-> f]
Sys(name, path) == [sys |-> name, path |-> path]

(******************************* the build *********************************)
CompileError == "compile_error!"
TargetOs == {"macos", "linux", "freebsd", "android"}
TargetArch == {"x86", "x86_64", "aarch64", "arm"}

OS_unchecked ==
    CASE target.os = "macos" -> "darwin"
      [] target.os = "linux" -> "linux"
      [] OTHER -> ""
OS ==
    CASE target.os = "macos" -> "darwin"
      [] target.os = "linux" -> "linux"
      [] OTHER -> CompileError

ARCH ==
    CASE target.arch = "x86" -> "x86"
      [] target.arch = "x86_64" -> "x64"
      [] OTHER -> CompileError

(* The crate compiles: neither cfg_if! reached its compile_error!. *)
Built == OS # CompileError /\ ARCH # CompileError

(******************************** paths ************************************)
(* PathBuf::join: an absolute component replaces the path, otherwise it is *)
(* appended, after a separator unless the path already ends with one.      *)
is_absolute(c) == c # <<>> /\ Head(c) = "/"
join(p, c) ==
    IF is_absolute(c) THEN c
    ELSE IF p # <<>> /\ p[Len(p)] # "/" THEN p \o <<"/">> \o c
    ELSE p \o c

HomeDir == <<"/", "home", "/", "u">>
RpmShim == <<"/", "usr", "/", "bin", "/", "volta", "-", "lib", "/", "shim">>
DefaultShim == <<"/", "home", "/", "u", "/", ".volta", "/", "shim">>
ShimNode == <<"/", "home", "/", "u", "/", ".volta", "/", "bin", "/", "node">>
TmpShim == <<"/", "tmp", "/", "shim">>

FsPaths == {DefaultShim, RpmShim, ShimNode}

Absent == [kind |-> "absent", to |-> <<>>]
File == [kind |-> "file", to |-> <<>>]
Link(t) == [kind |-> "link", to |-> t]

(* lstat: the path names something, a dangling link included. *)
lexists(f, p) == p \in DOMAIN f /\ f[p].kind # "absent"

(* Path::exists: the path resolves, through links, to something. *)
RECURSIVE resolves(_, _, _)
resolves(f, p, n) ==
    IF p \notin DOMAIN f THEN FALSE
    ELSE CASE f[p].kind = "absent" -> FALSE
           [] f[p].kind = "file" -> TRUE
           [] OTHER -> n > 0 /\ resolves(f, f[p].to, n - 1)
exists(f, p) == resolves(f, p, MaxHops)

(************************** the layout: the root ***************************)
HomeDirCall == Sys("home_dir", <<>>)

(* A faulty variant: an empty home where the lookup found none. *)
default_volta_home_unwrap ==
    Outcome(Ok(join(home.val, <<".volta">>)), <<HomeDirCall>>, fs)
default_volta_home ==
    Outcome(IF home.some THEN Ok(join(home.val, <<".volta">>))
            ELSE Err("NoHomeEnvironmentVar"),
            <<HomeDirCall>>, fs)

(* o? followed by .join(c): the error of o, or its path with c joined. *)
and_join(o, c) == IF o.res.ok THEN [o EXCEPT !.res = Ok(join(o.res.val, c))] ELSE o

volta_home == default_volta_home
shim_dir == and_join(volta_home, <<"bin">>)

archive_extension == <<"tar", ".", "gz">>

(* <root>/tools/image/node/<node>/<npm> *)
node_image_dir(node, npm) ==
    LET h == volta_home
    IN  IF h.res.ok
        THEN [h EXCEPT !.res = Ok(h.res.val \o <<"/", "tools", "/", "image", "/", "node", "/">>
                                  \o node \o <<"/">> \o npm)]
        ELSE h

(* A faulty variant: the bin directory beside the image, not inside it. *)
node_image_bin_dir_sibling(node, npm) ==
    LET d == node_image_dir(node, <<>>) IN and_join(d, <<"bin">>)
node_image_bin_dir(node, npm) == and_join(node_image_dir(node, npm), <<"bin">>)

(* A faulty variant: the shim of a tool that is installed gets a suffix. *)
shim_file_probing(toolname) ==
    LET o == and_join(shim_dir, toolname)
    IN  IF o.res.ok /\ lexists(fs, o.res.val)
        THEN [o EXCEPT !.res = Ok(o.res.val \o <<".", "1">>)]
        ELSE o
shim_file(toolname) == and_join(shim_dir, toolname)

volta_file == and_join(volta_home, <<"volta">>)

env_paths ==
    LET d == shim_dir
    IN  IF d.res.ok THEN [d EXCEPT !.res = Ok(<<d.res.val>>)] ELSE d

(***************************** shim_executable *****************************)
(* A faulty variant: the RPM location is looked at before the default. *)
shim_executable_rpm_first ==
    IF volta_shim.some THEN Outcome(Ok(volta_shim.val), <<>>, fs)
    ELSE LET h == volta_home
             d == join(h.res.val, <<"shim">>)
         IN  IF ~h.res.ok THEN h
             ELSE IF exists(fs, RpmShim)
             THEN Outcome(Ok(RpmShim), h.log \o <<Sys("exists", RpmShim)>>, fs)
             ELSE IF exists(fs, d)
             THEN Outcome(Ok(d), h.log \o <<Sys("exists", RpmShim), Sys("exists", d)>>, fs)
             ELSE Outcome(Err("ShimExecutableNotFound"),
                          h.log \o <<Sys("exists", RpmShim), Sys("exists", d)>>, fs)

(* A faulty variant: the override is used only if it exists. *)
shim_executable_checked_override ==
    LET h == volta_home
        d == join(h.res.val, <<"shim">>)
    IN  IF volta_shim.some /\ exists(fs, volta_shim.val)
        THEN Outcome(Ok(volta_shim.val), <<Sys("exists", volta_shim.val)>>, fs)
        ELSE IF ~h.res.ok THEN h
        ELSE IF exists(fs, d) THEN Outcome(Ok(d), h.log \o <<Sys("exists", d)>>, fs)
        ELSE Outcome(Err("ShimExecutableNotFound"), h.log \o <<Sys("exists", d)>>, fs)

(* A faulty variant: no shim anywhere, so the default path is handed out. *)
shim_executable_optimistic ==
    IF volta_shim.some THEN Outcome(Ok(volta_shim.val), <<>>, fs)
    ELSE LET h == volta_home
             d == join(h.res.val, <<"shim">>)
             l == h.log \o <<Sys("exists", d)>>
         IN  IF ~h.res.ok THEN h
             ELSE IF exists(fs, d) THEN Outcome(Ok(d), l, fs)
             ELSE IF exists(fs, RpmShim)
             THEN Outcome(Ok(RpmShim), l \o <<Sys("exists", RpmShim)>>, fs)
             ELSE Outcome(Ok(d), l \o <<Sys("exists", RpmShim)>>, fs)

(* A faulty variant: a missing default shim is repaired from the RPM one. *)
shim_executable_repairing ==
    IF volta_shim.some THEN Outcome(Ok(volta_shim.val), <<>>, fs)
    ELSE LET h == volta_home
             d == join(h.res.val, <<"shim">>)
             l == h.log \o <<Sys("exists", d)>>
         IN  IF ~h.res.ok THEN h
             ELSE IF exists(fs, d) THEN Outcome(Ok(d), l, fs)
             ELSE IF exists(fs, RpmShim)
             THEN Outcome(Ok(RpmShim), l \o <<Sys("exists", RpmShim)>>,
                          IF d \in DOMAIN fs THEN [fs EXCEPT ![d] = Link(RpmShim)] ELSE fs)
             ELSE Outcome(Err("ShimExecutableNotFound"), l \o <<Sys("exists", RpmShim)>>, fs)

shim_executable ==
    IF volta_shim.some THEN Outcome(Ok(volta_shim.val), <<>>, fs)
    ELSE LET h == volta_home
             default_shim_executable == join(h.res.val, <<"shim">>)
             rpm_shim_executable == RpmShim
             l == h.log \o <<Sys("exists", default_shim_executable)>>
         IN  IF ~h.res.ok THEN h
             ELSE IF exists(fs, default_shim_executable)
             THEN Outcome(Ok(default_shim_executable), l, fs)
             ELSE IF exists(fs, rpm_shim_executable)
             THEN Outcome(Ok(rpm_shim_executable),
                          l \o <<Sys("exists", rpm_shim_executable)>>, fs)
             ELSE Outcome(Err("ShimExecutableNotFound"),
                          l \o <<Sys("exists", rpm_shim_executable)>>, fs)

(*************************** create_file_symlink ***************************)
(* symlink(2). The kernel looks dst up, without following a link there,    *)
(* before it asks whether the caller may create it: EEXIST comes first.    *)
(* `denied` is the kernel refusing the creation for a reason of its own.   *)
(* A faulty variant: a destination that exists is replaced.                *)
create_file_symlink_force(src, dst, denied) ==
    IF denied THEN Outcome(Err("PermissionDenied"), <<Sys("symlink", dst)>>, fs)
    ELSE Outcome(Ok(<<>>), <<Sys("symlink", dst)>>, [fs EXCEPT ![dst] = Link(src)])
create_file_symlink(src, dst, denied) ==
    IF lexists(fs, dst) THEN Outcome(Err("AlreadyExists"), <<Sys("symlink", dst)>>, fs)
    ELSE IF denied THEN Outcome(Err("PermissionDenied"), <<Sys("symlink", dst)>>, fs)
    ELSE Outcome(Ok(<<>>), <<Sys("symlink", dst)>>, [fs EXCEPT ![dst] = Link(src)])

(************************ inventory and image names ************************)
Pure(v) == Outcome(Ok(v), <<>>, fs)

(* node-v<version>-<os>-<arch>.tar.gz *)
node_distro_file_name(version) ==
    Pure(<<"node", "-", "v">> \o version \o <<"-", OS, "-", ARCH, ".">> \o archive_extension)

(* <name>-<version>.tgz and its checksum <name>-<version>.shasum *)
package_distro_file(name, version) == Pure(name \o <<"-">> \o version \o <<".", "tgz">>)
package_distro_shasum(name, version) == Pure(name \o <<"-">> \o version \o <<".", "shasum">>)

(* <root>/tools/image/packages/<name>/<version> *)
package_image_dir(name, version) ==
    LET h == volta_home
    IN  IF h.res.ok
        THEN [h EXCEPT !.res = Ok(h.res.val
                                  \o <<"/", "tools", "/", "image", "/", "packages", "/">>
                                  \o name \o <<"/">> \o version)]
        ELSE h

(******************************** the inputs *******************************)
Tools == {<<"node">>, <<"yarn">>}
LinkSources == {DefaultShim, RpmShim}
LinkDests == {ShimNode, DefaultShim}

(* Versions the resolver's behaviours ask images for. *)
HostVersions == {<<"10.13.0">>, <<"6.4.0">>}

(* Package names and versions: plain ones, and ones that hold a separator. *)
Names ==
    { <<"ember">>, <<"ember", "-", "cli">>, <<"ember", "/", "cli">>,
      <<"ember", "-", "1.0.0", "-", "rc">> }
Versions ==
    { <<"3.7.1">>, <<"cli", "-", "3.7.1">>, <<"cli", "/", "3.7.1">>,
      <<"1.0.0", "-", "rc", "-", "3.7.1">> }

(* Runtime and package-manager versions, the empty string among them. *)
NodeVersions == {<<"10.13.0">>, <<"6.4.0">>, <<"1.0.0", "-", "rc">>, <<>>}

(********************************* the state *******************************)
NoCall ==
    [op |-> "none", args |-> <<>>, res |-> Ok(<<>>), log |-> <<>>, pre |-> {},
     changed |-> FALSE, again |-> FALSE, quiet |-> TRUE, prevArgs |-> <<>>,
     prev |-> Ok(<<>>)]

NoFiles == [p \in FsPaths |-> Absent]

(* The program as built for the host, its environment as the host gives it. *)
Init ==
    /\ target = [os |-> "linux", arch |-> "x86_64"]
    /\ home \in {NoneV, Some(HomeDir)}
    /\ volta_shim \in {NoneV, Some(<<>>), Some(TmpShim), Some(RpmShim)}
    /\ fs = NoFiles
    /\ ret = NoCall
    /\ stale = FALSE

(* Any build target; a build that fails leaves no program to call. *)
InitNaming ==
    /\ target \in [os : TargetOs, arch : TargetArch]
    /\ home \in {NoneV, Some(HomeDir)}
    /\ volta_shim = NoneV
    /\ fs = NoFiles
    /\ ret = NoCall
    /\ stale = FALSE

(* One call of the program: `o` is what the function does in this state,   *)
(* `pre` what held of the paths it is about when it was called. The record *)
(* keeps the previous call's arguments and result when that was a call of  *)
(* the same function, and whether the file system was left alone between.  *)
Call(op, args, o, pre) ==
    /\ Built
    /\ ret' = [op |-> op, args |-> args, res |-> o.res, log |-> o.log, pre |-> pre,
               changed |-> o.fs # fs,
               again |-> ret.op = op,
               quiet |-> IF ret.op = op THEN ~stale ELSE TRUE,
               prevArgs |-> IF ret.op = op THEN ret.args ELSE <<>>,
               prev |-> IF ret.op = op THEN ret.res ELSE Ok(<<>>)]
    /\ fs' = o.fs
    /\ stale' = FALSE
    /\ UNCHANGED <<target, home, volta_shim>>

CallDefaultVoltaHome == Call("default_volta_home", <<>>, default_volta_home, {})
CallVoltaFile == Call("volta_file", <<>>, volta_file, {})
CallShimFile(t) == Call("shim_file", <<t>>, shim_file(t), {})
CallEnvPaths == Call("env_paths", <<>>, env_paths, {})
CallNodeImageDir(v, n) == Call("node_image_dir", <<v, n>>, node_image_dir(v, n), {})
CallNodeImageBinDir(v, n) ==
    Call("node_image_bin_dir", <<v, n>>, node_image_bin_dir(v, n), {})
CallShimExecutable ==
    Call("shim_executable", <<>>, shim_executable,
         {p \in {DefaultShim, RpmShim} : exists(fs, p)})
CallCreateFileSymlink(src, dst, denied) ==
    Call("create_file_symlink", <<src, dst>>, create_file_symlink(src, dst, denied),
         {p \in {dst} : lexists(fs, p)})

CallNodeDistroFileName(v) == Call("node_distro_file_name", <<v>>, node_distro_file_name(v), {})
CallPackageDistroFile(n, v) ==
    Call("package_distro_file", <<n, v>>, package_distro_file(n, v), {})
CallPackageDistroShasum(n, v) ==
    Call("package_distro_shasum", <<n, v>>, package_distro_shasum(n, v), {})
CallPackageImageDir(n, v) ==
    Call("package_image_dir", <<n, v>>, package_image_dir(n, v), {})

(* Other processes: an installer writes a file, removes one, links one. *)
Other(f) ==
    /\ f # fs
    /\ fs' = f
    /\ stale' = TRUE
    /\ UNCHANGED <<target, home, volta_shim, ret>>

OtherProcessCreate(p) == fs[p].kind = "absent" /\ Other([fs EXCEPT ![p] = File])
OtherProcessRemove(p) == fs[p].kind # "absent" /\ Other([fs EXCEPT ![p] = Absent])
OtherProcessSymlink(s, d) == fs[d].kind = "absent" /\ Other([fs EXCEPT ![d] = Link(s)])

Next ==
    \/ \E p \in FsPaths : OtherProcessCreate(p)
    \/ \E p \in FsPaths : OtherProcessRemove(p)
    \/ \E s \in LinkSources, d \in LinkDests : OtherProcessSymlink(s, d)
    \/ CallDefaultVoltaHome
    \/ CallVoltaFile
    \/ \E t \in Tools : CallShimFile(t)
    \/ CallEnvPaths
    \/ \E v, n \in HostVersions : CallNodeImageDir(v, n)
    \/ \E v, n \in HostVersions : CallNodeImageBinDir(v, n)
    \/ CallShimExecutable
    \/ \E s \in LinkSources, d \in LinkDests, denied \in BOOLEAN :
           CallCreateFileSymlink(s, d, denied)

Spec == Init /\ [][Next]_vars

NextNaming ==
    \/ \E v \in NodeVersions : CallNodeDistroFileName(v)
    \/ \E n \in Names, v \in Versions : CallPackageDistroFile(n, v)
    \/ \E n \in Names, v \in Versions : CallPackageDistroShasum(n, v)
    \/ \E n \in Names, v \in Versions : CallPackageImageDir(n, v)
    \/ \E v, n \in NodeVersions : CallNodeImageDir(v, n)
    \/ \E v, n \in NodeVersions : CallNodeImageBinDir(v, n)

SpecNaming == InitNaming /\ [][NextNaming]_vars

(******************************* properties ********************************)
IsShimCall == ret.op = "shim_executable"

(* The existence checks a call made, in order. *)
Checks(log) == SelectSeq(log, LAMBDA e : e.sys = "exists")

(* A path's components: what lies between its separators. *)
RECURSIVE Split(_, _, _)
Split(s, cur, acc) ==
    IF s = <<>> THEN (IF cur = "" THEN acc ELSE Append(acc, cur))
    ELSE IF Head(s) = "/" THEN Split(Tail(s), "", IF cur = "" THEN acc ELSE Append(acc, cur))
    ELSE Split(Tail(s), cur \o Head(s), acc)
Components(s) == Split(s, "", <<>>)

(* C1: with VOLTA_SHIM set, shim_executable returns exactly that value,    *)
(* whatever exists on disk, and makes no existence check and no home       *)
(* lookup (no system call at all) on the way.                              *)
C1_OverrideVerbatim ==
    (IsShimCall /\ volta_shim.some) =>
        /\ ret.res.ok
        /\ Text(ret.res.val) = Text(volta_shim.val)
        /\ ret.log = <<>>

(* C1's case: the override names a path that does not exist while the      *)
(* default shim does, and the override is what came back.                  *)
C1_Witness ==
    /\ IsShimCall /\ volta_shim = Some(RpmShim)
    /\ ret.pre = {DefaultShim}
    /\ ret.res.ok /\ Text(ret.res.val) = "/usr/bin/volta-lib/shim"

(* C2: with VOLTA_SHIM unset, the first of <root>/shim and                 *)
(* /usr/bin/volta-lib/shim that exists is returned: the default whenever   *)
(* it exists, the fallback only when the default does not.                 *)
C2_FirstMatchWins ==
    (IsShimCall /\ ~volta_shim.some /\ home.some) =>
        /\ DefaultShim \in ret.pre =>
               ret.res.ok /\ Text(ret.res.val) = "/home/u/.volta/shim"
        /\ (DefaultShim \notin ret.pre /\ RpmShim \in ret.pre) =>
               ret.res.ok /\ Text(ret.res.val) = "/usr/bin/volta-lib/shim"
        /\ (ret.res.ok /\ Text(ret.res.val) = "/usr/bin/volta-lib/shim") =>
               DefaultShim \notin ret.pre

(* C2's case: both locations exist and the default is returned. *)
C2_Witness ==
    /\ IsShimCall /\ ~volta_shim.some
    /\ ret.pre = {DefaultShim, RpmShim}
    /\ ret.res.ok /\ Text(ret.res.val) = "/home/u/.volta/shim"

(* C3: with VOLTA_SHIM unset and neither location existing, the call fails *)
(* with ShimExecutableNotFound and returns no path; and a path it returns  *)
(* with VOLTA_SHIM unset is one its own last check found to exist.         *)
C3_NotFoundOrObserved ==
    (IsShimCall /\ ~volta_shim.some) =>
        /\ (home.some /\ ret.pre = {}) =>
               ~ret.res.ok /\ ret.res.err = "ShimExecutableNotFound" /\ ret.res.val = <<>>
        /\ ret.res.ok =>
               /\ ret.res.val \in ret.pre
               /\ ret.log # <<>>
               /\ ret.log[Len(ret.log)] = Sys("exists", ret.res.val)

(* C3's case: the default location holds only a dangling link, the         *)
(* fallback nothing, and the call failed.                                  *)
C3_Witness ==
    /\ IsShimCall /\ ~volta_shim.some /\ home.some /\ ~stale
    /\ fs[DefaultShim].kind = "link" /\ fs[RpmShim].kind = "absent"
    /\ ret.res.err = "ShimExecutableNotFound"

(* C4: with no home directory, the root lookup fails with the home-        *)
(* directory error, and so does every call that derives its path from the  *)
(* root, shim_executable without override included.                        *)
C4_NoHomePropagates ==
    (/\ ~home.some
     /\ \/ ret.op \in {"default_volta_home", "volta_file", "shim_file", "env_paths",
                       "node_image_bin_dir"}
        \/ IsShimCall /\ ~volta_shim.some) =>
        ~ret.res.ok /\ ret.res.err = "NoHomeEnvironmentVar" /\ ret.res.val = <<>>

(* C4's case: shim_executable without home and override, while the         *)
(* fallback shim exists.                                                   *)
C4_Witness ==
    /\ IsShimCall /\ ~home.some /\ ~volta_shim.some
    /\ RpmShim \in ret.pre
    /\ ret.res.err = "NoHomeEnvironmentVar"

(* C5: a call of shim_executable leaves the file system as it was, and     *)
(* checks existence at most twice: the default first, the fallback only    *)
(* after the default was found missing, nothing when VOLTA_SHIM is set.    *)
C5_ResolverOnlyLooks ==
    IsShimCall =>
        /\ ~ret.changed
        /\ \A i \in 1..Len(ret.log) : ret.log[i].sys \in {"home_dir", "exists"}
        /\ Checks(ret.log) \in
               { <<>>, <<Sys("exists", DefaultShim)>>,
                 <<Sys("exists", DefaultShim), Sys("exists", RpmShim)>> }
        /\ Len(Checks(ret.log)) = 2 => DefaultShim \notin ret.pre
        /\ volta_shim.some => Checks(ret.log) = <<>>

(* C5's case: both checks were made and the fallback came back. *)
C5_Witness ==
    /\ IsShimCall
    /\ Len(Checks(ret.log)) = 2
    /\ ret.res.ok /\ Text(ret.res.val) = "/usr/bin/volta-lib/shim"

(* C6: create_file_symlink on a destination that exists, a dangling link   *)
(* included, fails with the destination-exists error and changes nothing;  *)
(* the call is one symlink system call, with no retry and no cleanup; two  *)
(* calls in a row with the same arguments do not both succeed.             *)
C6_SymlinkRefusesExisting ==
    ret.op = "create_file_symlink" =>
        /\ ret.log = <<Sys("symlink", ret.args[2])>>
        /\ ret.args[2] \in ret.pre =>
               ~ret.res.ok /\ ret.res.err = "AlreadyExists" /\ ~ret.changed
        /\ (ret.again /\ ret.quiet /\ ret.prevArgs = ret.args) =>
               ~(ret.prev.ok /\ ret.res.ok)

(* C6's case: the destination is a stale link to another source, and the   *)
(* call failed and left it.                                                *)
C6_Witness ==
    /\ ret.op = "create_file_symlink" /\ ~stale
    /\ fs[ret.args[2]].kind = "link"
    /\ fs[ret.args[2]].to # ret.args[1]
    /\ ~exists(fs, ret.args[2])
    /\ ret.res.err = "AlreadyExists"

(* C8: shim_file, env_paths, node_image_dir and node_image_bin_dir return  *)
(* the same result as their previous call with the same arguments,         *)
(* whatever other processes did to the file system in between.             *)
C8_PathsStable ==
    (/\ ret.op \in {"shim_file", "env_paths", "node_image_dir", "node_image_bin_dir"}
     /\ ret.again
     /\ ret.prevArgs = ret.args) =>
        ret.prev = ret.res

(* C8's case: shim_file called again for a tool whose shim another process *)
(* created in between.                                                     *)
C8_Witness ==
    /\ ret.op = "shim_file" /\ ret.again /\ ret.prevArgs = ret.args
    /\ ~ret.quiet /\ ~stale
    /\ ret.res.ok /\ lexists(fs, ret.res.val)

(* C7: two calls of one naming function with different (name, version) or  *)
(* (runtime version, paired version) arguments give different file names   *)
(* and different image directories.                                        *)
C7_NamesCollisionFree ==
    (/\ ret.op \in {"package_distro_file", "package_distro_shasum",
                    "node_distro_file_name", "package_image_dir", "node_image_dir"}
     /\ ret.again
     /\ \E i \in 1..Len(ret.args) : Text(ret.prevArgs[i]) # Text(ret.args[i])
     /\ ret.prev.ok /\ ret.res.ok) =>
        Text(ret.prev.val) # Text(ret.res.val)

(* C9: the crate builds exactly for macos or linux on x86 or x86_64, and   *)
(* then OS is "darwin" or "linux" and ARCH "x86" or "x64" as its target    *)
(* says; for any other target nothing is ever called, and an archive name  *)
(* carries exactly the two identifiers of its target.                      *)
C9_PlatformIdentifiers ==
    LET supported == target.os \in {"macos", "linux"} /\ target.arch \in {"x86", "x86_64"}
        os == IF target.os = "macos" THEN "darwin" ELSE "linux"
        arch == IF target.arch = "x86" THEN "x86" ELSE "x64"
    IN  /\ Built <=> supported
        /\ Built => OS = os /\ ARCH = arch
        /\ ~supported => ret = NoCall
        /\ ret.op = "node_distro_file_name" =>
               Text(ret.res.val)
                   = "node-v" \o Text(ret.args[1]) \o "-" \o os \o "-" \o arch \o ".tar.gz"

(* C9's case: the archive name of Node 10.13.0 built for linux on x86_64. *)
C9_Witness ==
    /\ target = [os |-> "linux", arch |-> "x86_64"]
    /\ ret.op = "node_distro_file_name"
    /\ Text(ret.res.val) = "node-v10.13.0-linux-x64.tar.gz"

(* C10: node_image_dir(v, p) is <root>/tools/image/node/<v>/<p>, and       *)
(* node_image_bin_dir(v, p) is that path with the one component "bin"      *)
(* appended, failing exactly when node_image_dir does; neither touches the *)
(* file system.                                                            *)
C10_NodeImageBinDir ==
    LET v == ret.args[1]
        p == ret.args[2]
        d == node_image_dir(v, p).res
    IN  /\ (ret.op = "node_image_dir" /\ home.some) =>
               /\ ret.res.ok
               /\ Text(ret.res.val)
                      = "/home/u/.volta/tools/image/node/" \o Text(v) \o "/" \o Text(p)
        /\ ret.op = "node_image_bin_dir" =>
               /\ ret.res.ok = d.ok
               /\ ret.res.err = d.err
               /\ ret.res.ok =>
                      /\ Components(ret.res.val) = Append(Components(d.val), "bin")
                      /\ is_absolute(ret.res.val)
                      /\ d.val[Len(d.val)] # "/" =>
                             Text(ret.res.val) = Text(d.val) \o "/bin"
        /\ ret.op \in {"node_image_dir", "node_image_bin_dir"} =>
               /\ ~ret.changed
               /\ \A i \in 1..Len(ret.log) : ret.log[i].sys = "home_dir"

(* C10's case: Node 10.13.0 with npm 6.4.0 under /home/u/.volta. *)
C10_Witness ==
    /\ ret.op = "node_image_bin_dir"
    /\ ret.args = << <<"10.13.0">>, <<"6.4.0">> >>
    /\ Text(ret.res.val) = "/home/u/.volta/tools/image/node/10.13.0/6.4.0/bin"
    /\ Text(node_image_dir(ret.args[1], ret.args[2]).res.val)
           = "/home/u/.volta/tools/image/node/10.13.0/6.4.0"

====
